---- MODULE Spec2Model ----
(***************************************************************************)
(* State machine of the snake game in src/app/page.tsx (SnakeVentures).    *)
(*                                                                         *)
(* The React state of the component is the state of the model; every       *)
(* handler (timer callback, key listener, touch handler, button click) is  *)
(* one atomic action, because React flushes the state updates of one       *)
(* event before the next event is dispatched and the handlers are rebuilt  *)
(* from the flushed state.                                                 *)
(*                                                                         *)
(* The board is scaled down: the source plays on a 20 x 20 grid up to 10   *)
(* peaches; GRID_SIZE and MAX_PEACHES below are the bounds of the model,   *)
(* and the start cell and the pre-start peach keep the source's            *)
(* proportions (centre, and three quarters of the way along the centre     *)
(* row).                                                                   *)
(***************************************************************************)
EXTENDS Integers, Sequences, FiniteSets

\* src/app/page.tsx:14 has 20; scaled down to bound the state space.
GRID_SIZE == 4

\* src/app/page.tsx:18 has 10; scaled down to bound the state space.
MAX_PEACHES == 3

Directions == {"UP", "DOWN", "LEFT", "RIGHT"}

\* The keys a keydown event may carry, lower-cased (line 104); "x" stands for
\* every key the switch of handleKeyPress has no case for.
Keys == {"w", "a", "s", "d", "x"}

Coords == 0 .. (GRID_SIZE - 1)

\* Every cell of the board, as the source's Position objects.
Grid == {[x |-> cx, y |-> cy] : cx \in Coords, cy \in Coords}

\* {x: 10, y: 10} on the 20 x 20 board.
INITIAL_SNAKE == << [x |-> GRID_SIZE \div 2, y |-> GRID_SIZE \div 2] >>

INITIAL_DIRECTION == "RIGHT"

\* {x: 15, y: 10} on the 20 x 20 board: the peach of useState and of resetGame.
INITIAL_PEACH == [x |-> (3 * GRID_SIZE) \div 4, y |-> GRID_SIZE \div 2]

VARIABLES
    snake,      \* Position[]: head first
    direction,  \* Direction
    peach,      \* Position
    gameOver,   \* boolean
    score,      \* number
    isPlaying,  \* boolean
    moved,      \* history: the direction the last tick of this run applied, "NONE" before the first
    pending,    \* history: the last requested direction that is not the reverse of the one
                \*          the last tick applied (the direction a last-write-wins queue would hold)
    resetFrom,  \* history: the phase resetGame was called in, if nothing happened since; else "NONE"
    only,       \* history: the turn requests since the last tick of a running game:
                \*          "NONE", "REVERSE" (a single one, for the opposite of direction),
                \*          "OTHER", or "REFUSED" (none since a tick that followed "REVERSE")
    run,        \* history: how many ticks in a row, up to the last, applied the same direction
    spawnArg,      \* generatePeach: its argument currentSnake
    newPeach,      \* generatePeach: its local variable
    spawnPc        \* generatePeach: "idle" (not called), "draw", "test", "returned"

history == <<moved, pending, resetFrom, only, run>>

spawnVars == <<spawnArg, newPeach, spawnPc>>

vars == <<snake, direction, peach, gameOver, score, isPlaying, moved, pending,
          resetFrom, only, run, spawnArg, newPeach, spawnPc>>

state == <<snake, direction, peach, gameOver, score, isPlaying>>

Cells(s) == {s[i] : i \in 1 .. Len(s)}

Opposite(d) ==
    CASE d = "UP" -> "DOWN"
      [] d = "DOWN" -> "UP"
      [] d = "LEFT" -> "RIGHT"
      [] d = "RIGHT" -> "LEFT"

\* The direction the last tick applied, or the initial one before the first tick.
Committed == IF moved = "NONE" THEN INITIAL_DIRECTION ELSE moved

\* Mutant of NewHead: RIGHT wraps round to column 0 at the last column.
NewHeadWraps(h, d) ==
    CASE d = "UP" -> [h EXCEPT !.y = h.y - 1]
      [] d = "DOWN" -> [h EXCEPT !.y = h.y + 1]
      [] d = "LEFT" -> [h EXCEPT !.x = h.x - 1]
      [] d = "RIGHT" -> [h EXCEPT !.x = (h.x + 1) % GRID_SIZE]

\* The switch of moveSnake: the head after one step in direction d.
NewHead(h, d) ==
    CASE d = "UP" -> [h EXCEPT !.y = h.y - 1]
      [] d = "DOWN" -> [h EXCEPT !.y = h.y + 1]
      [] d = "LEFT" -> [h EXCEPT !.x = h.x - 1]
      [] d = "RIGHT" -> [h EXCEPT !.x = h.x + 1]

\* Mutant of HitsWall: the upper bounds tested with > in place of >=.
HitsWallOffByOne(h) == h.x < 0 \/ h.x > GRID_SIZE \/ h.y < 0 \/ h.y > GRID_SIZE

\* Mutant of HitsWall: the tests against 0 left out.
HitsWallUpperOnly(h) == h.x >= GRID_SIZE \/ h.y >= GRID_SIZE

HitsWall(h) == h.x < 0 \/ h.x >= GRID_SIZE \/ h.y < 0 \/ h.y >= GRID_SIZE

\* Mutant of HitsSelf: the self-collision test left out.
HitsSelfNever(s, h) == FALSE

\* Mutant of HitsSelf: the last cell, which a move without a peach vacates,
\* left out of the test.
HitsSelfSkipsTail(s, h) == \E i \in 1 .. (Len(s) - 1) : s[i].x = h.x /\ s[i].y = h.y

HitsSelf(s, h) == \E i \in 1 .. Len(s) : s[i].x = h.x /\ s[i].y = h.y

\* Mutant of generatePeach: the first draw returned without the retry loop.
generatePeachNoRetry(currentSnake) == Grid

\* The cells generatePeach can return: the do-while loop draws cells of the
\* board until one is on no segment of currentSnake.
generatePeach(currentSnake) ==
    {p \in Grid : ~(\E i \in 1 .. Len(currentSnake) :
                        currentSnake[i].x = p.x /\ currentSnake[i].y = p.y)}

\* Mutant of isGameWon: > in place of >=.
isGameWonStrict == score > MAX_PEACHES

\* The phase shown by the component.
isGameWon == score >= MAX_PEACHES

LoopRunning == isPlaying /\ ~gameOver /\ score < MAX_PEACHES

Phase ==
    IF LoopRunning THEN "ACTIVE"
    ELSE IF isGameWon THEN "WON"
    ELSE IF gameOver THEN "LOST"
    ELSE "IDLE"

\* let newPeach: Position, before the first draw assigns it.
NoPeach == [x |-> -1, y |-> -1]

TypeOK ==
    /\ snake \in Seq(Grid)
    /\ direction \in Directions
    /\ peach \in Grid
    /\ gameOver \in BOOLEAN
    /\ isPlaying \in BOOLEAN
    /\ score \in Nat

Init ==
    /\ snake = INITIAL_SNAKE
    /\ direction = INITIAL_DIRECTION
    /\ peach = INITIAL_PEACH
    /\ gameOver = FALSE
    /\ score = 0
    /\ isPlaying = FALSE
    /\ moved = "NONE"
    /\ pending = INITIAL_DIRECTION
    /\ resetFrom = "NONE"
    /\ only = "NONE"
    /\ run = 0
    /\ spawnArg = <<>>
    /\ newPeach = NoPeach
    /\ spawnPc = "idle"

\* newSnake.unshift(head)
Unshift(s, head) == <<head>> \o s

\* Mutant of Pop: the tail kept.
PopNothing(s) == s

\* newSnake.pop()
Pop(s) == SubSeq(s, 1, Len(s) - 1)

\* Mutant of ScoreAfter: the increment applied twice.
ScoreAfterTwice(sc) == sc + 2

\* setScore(prev => prev + 1)
ScoreAfter(sc) == sc + 1

\* Mutant of MorePeaches: the score before the increment compared.
MorePeachesOffByOne(sc) == sc < MAX_PEACHES

\* The test that decides between a new peach and the end of the game.
MorePeaches(sc) == sc + 1 < MAX_PEACHES

\* Mutant of TickReturnsEarly: the isPlaying test left out.
TickReturnsEarlyIgnoresPlaying == gameOver \/ score >= MAX_PEACHES

\* The early return of moveSnake.
TickReturnsEarly == gameOver \/ ~isPlaying \/ score >= MAX_PEACHES

\* One timer callback.
moveSnake ==
    IF TickReturnsEarly
    THEN UNCHANGED vars
    ELSE LET head == NewHead(snake[1], direction)
             newSnake == Unshift(snake, head)
         IN  /\ moved' = direction
             /\ pending' = direction
             /\ resetFrom' = "NONE"
             /\ only' = (IF only = "REVERSE" THEN "REFUSED" ELSE "NONE")
             /\ run' = (IF moved = direction THEN run + 1 ELSE 1)
             /\ UNCHANGED spawnVars
             /\ direction' = direction
             /\ IF HitsWall(head) \/ HitsSelf(snake, head)
                THEN /\ gameOver' = TRUE
                     /\ isPlaying' = FALSE
                     /\ snake' = snake
                     /\ UNCHANGED <<peach, score>>
                ELSE IF head.x = peach.x /\ head.y = peach.y
                THEN /\ score' = ScoreAfter(score)
                     /\ snake' = newSnake
                     /\ gameOver' = gameOver
                     /\ IF MorePeaches(score)
                        THEN /\ peach' \in generatePeach(newSnake)
                             /\ isPlaying' = isPlaying
                        ELSE /\ isPlaying' = FALSE
                             /\ peach' = peach
                ELSE /\ snake' = Pop(newSnake)
                     /\ UNCHANGED <<peach, score, gameOver, isPlaying>>

\* Mutant of Turn: the test against the opposite direction left out.
TurnAlways(d) == d

\* The direction a turn request leaves in `direction`: the four cases of the
\* switch of handleKeyPress and of handleMobileControl.
Turn(d) == IF direction # Opposite(d) THEN d ELSE direction

\* What a last-write-wins queue judged against the committed direction holds
\* after a request for d.
PendingAfter(d) == IF d # Opposite(Committed) THEN d ELSE pending

\* The requests since the last tick, after a request for d.
OnlyAfter(d) ==
    IF only \in {"NONE", "REFUSED"} /\ d = Opposite(direction)
    THEN "REVERSE"
    ELSE "OTHER"

KeyDirection(key) ==
    CASE key = "w" -> "UP"
      [] key = "s" -> "DOWN"
      [] key = "a" -> "LEFT"
      [] key = "d" -> "RIGHT"

InputIgnored == gameOver /\ score < MAX_PEACHES

handleKeyPress(key) ==
    IF InputIgnored \/ key \notin {"w", "a", "s", "d"}
    THEN UNCHANGED vars
    ELSE /\ direction' = Turn(KeyDirection(key))
         /\ pending' = PendingAfter(KeyDirection(key))
         /\ only' = OnlyAfter(KeyDirection(key))
         /\ resetFrom' = "NONE"
         /\ UNCHANGED <<snake, peach, gameOver, score, isPlaying, moved, run>>
         /\ UNCHANGED spawnVars

handleMobileControl(newDirection) ==
    IF InputIgnored
    THEN UNCHANGED vars
    ELSE /\ direction' = Turn(newDirection)
         /\ pending' = PendingAfter(newDirection)
         /\ only' = OnlyAfter(newDirection)
         /\ resetFrom' = "NONE"
         /\ UNCHANGED <<snake, peach, gameOver, score, isPlaying, moved, run>>
         /\ UNCHANGED spawnVars

\* Mutant of startGame: setDirection(INITIAL_DIRECTION) left out.
startGameKeepsDirection ==
    /\ snake' = INITIAL_SNAKE
    /\ direction' = direction
    /\ peach' \in generatePeach(INITIAL_SNAKE)
    /\ gameOver' = FALSE
    /\ score' = 0
    /\ isPlaying' = TRUE
    /\ moved' = "NONE"
    /\ pending' = INITIAL_DIRECTION
    /\ resetFrom' = "NONE"
    /\ only' = "NONE"
    /\ run' = 0
    /\ UNCHANGED spawnVars

startGame ==
    /\ snake' = INITIAL_SNAKE
    /\ direction' = INITIAL_DIRECTION
    /\ peach' \in generatePeach(INITIAL_SNAKE)
    /\ gameOver' = FALSE
    /\ score' = 0
    /\ isPlaying' = TRUE
    /\ moved' = "NONE"
    /\ pending' = INITIAL_DIRECTION
    /\ resetFrom' = "NONE"
    /\ only' = "NONE"
    /\ run' = 0
    /\ UNCHANGED spawnVars

\* Mutant of resetGame: setScore(0) left out.
resetGameKeepsScore ==
    /\ snake' = INITIAL_SNAKE
    /\ direction' = INITIAL_DIRECTION
    /\ peach' = INITIAL_PEACH
    /\ gameOver' = FALSE
    /\ score' = score
    /\ isPlaying' = FALSE
    /\ moved' = "NONE"
    /\ pending' = INITIAL_DIRECTION
    /\ resetFrom' = Phase
    /\ only' = "NONE"
    /\ run' = 0
    /\ UNCHANGED spawnVars

\* Mutant of resetGame: setPeach({ x: 15, y: 10 }) left out.
resetGameKeepsPeach ==
    /\ snake' = INITIAL_SNAKE
    /\ direction' = INITIAL_DIRECTION
    /\ peach' = peach
    /\ gameOver' = FALSE
    /\ score' = 0
    /\ isPlaying' = FALSE
    /\ moved' = "NONE"
    /\ pending' = INITIAL_DIRECTION
    /\ resetFrom' = Phase
    /\ only' = "NONE"
    /\ run' = 0
    /\ UNCHANGED spawnVars

resetGame ==
    /\ snake' = INITIAL_SNAKE
    /\ direction' = INITIAL_DIRECTION
    /\ peach' = INITIAL_PEACH
    /\ gameOver' = FALSE
    /\ score' = 0
    /\ isPlaying' = FALSE
    /\ moved' = "NONE"
    /\ pending' = INITIAL_DIRECTION
    /\ resetFrom' = Phase
    /\ only' = "NONE"
    /\ run' = 0
    /\ UNCHANGED spawnVars

\* The button row renders "Start Game" / "Play Again" while not playing and
\* "Reset" while playing.
ClickStart == ~isPlaying /\ startGame

ClickReset == isPlaying /\ resetGame

KeyDown == \E key \in Keys : handleKeyPress(key)

Touch == \E d \in Directions : handleMobileControl(d)

Next ==
    \/ moveSnake
    \/ KeyDown
    \/ Touch
    \/ ClickStart
    \/ ClickReset

Spec == Init /\ [][Next]_vars

\* The same handlers driven as an engine: startGame and resetGame are plain
\* functions of the component and test no phase themselves, so a driver that
\* holds them can call either in every phase.
NextEngine ==
    \/ moveSnake
    \/ KeyDown
    \/ Touch
    \/ startGame
    \/ resetGame

SpecEngine == Init /\ [][NextEngine]_vars

(***************************************************************************)
(* generatePeach on its own: one call, step by step, for arguments that     *)
(* leave few cells free or cover few cells.                                *)
(***************************************************************************)

\* How many cells the arguments tried may cover, or leave free.
SpawnSlack == 1

RECURSIVE SmallSets(_)
\* The sets of at most k cells of the board.
SmallSets(k) ==
    IF k = 0
    THEN {{}}
    ELSE SmallSets(k - 1) \cup {S \cup {c} : S \in SmallSets(k - 1), c \in Grid}

RECURSIVE SeqOfSet(_)
\* An array holding the cells of S, each once.
SeqOfSet(S) ==
    IF S = {}
    THEN <<>>
    ELSE LET c == CHOOSE c \in S : TRUE
         IN  <<c>> \o SeqOfSet(S \ {c})

\* The arguments tried: snakes covering at most SpawnSlack cells, or all but
\* at most SpawnSlack cells (the whole board included).
SpawnInputs ==
    {SeqOfSet(S) : S \in SmallSets(SpawnSlack)}
        \cup {SeqOfSet(Grid \ S) : S \in SmallSets(SpawnSlack)}

\* The condition of the do-while loop: newPeach is on a segment of the snake.
SpawnRetries ==
    \E i \in 1 .. Len(spawnArg) :
        spawnArg[i].x = newPeach.x /\ spawnArg[i].y = newPeach.y

InitSpawn ==
    /\ snake = INITIAL_SNAKE
    /\ direction = INITIAL_DIRECTION
    /\ peach = INITIAL_PEACH
    /\ gameOver = FALSE
    /\ score = 0
    /\ isPlaying = FALSE
    /\ moved = "NONE"
    /\ pending = INITIAL_DIRECTION
    /\ resetFrom = "NONE"
    /\ only = "NONE"
    /\ run = 0
    /\ spawnArg \in SpawnInputs
    /\ newPeach = NoPeach
    /\ spawnPc = "draw"

\* The body of the loop: one draw of Math.random for each coordinate.
SpawnDraw ==
    /\ spawnPc = "draw"
    /\ newPeach' \in Grid
    /\ spawnPc' = "test"
    /\ UNCHANGED <<state, history, spawnArg>>

\* The while condition, and the return when it is false.
SpawnTest ==
    /\ spawnPc = "test"
    /\ spawnPc' = (IF SpawnRetries THEN "draw" ELSE "returned")
    /\ UNCHANGED <<state, history, spawnArg, newPeach>>

\* A draw of a cell that is on no segment of the snake.
SpawnDrawsFree ==
    /\ SpawnDraw
    /\ ~(\E i \in 1 .. Len(spawnArg) :
            spawnArg[i].x = newPeach'.x /\ spawnArg[i].y = newPeach'.y)

NextSpawn == SpawnDraw \/ SpawnTest

\* Math.random is fair to every cell: as long as draws are made, a cell off
\* the snake is drawn at some point if there is one.
SpecSpawn ==
    /\ InitSpawn
    /\ [][NextSpawn]_vars
    /\ WF_vars(NextSpawn)
    /\ SF_vars(SpawnDrawsFree)

\* The set generatePeach stands for in the game actions is the set of cells
\* the loop can return.
SpawnAgreesWithGeneratePeach ==
    spawnPc = "returned" => newPeach \in generatePeach(spawnArg)

(***************************************************************************)
(* Steps the claims speak of.                                              *)
(***************************************************************************)

\* A timer callback that finds the game running.
ActiveTick == LoopRunning /\ moveSnake

\* The cell an active tick tries to enter.
NextHead == NewHead(snake[1], direction)

Collides == HitsWall(NextHead) \/ HitsSelf(snake, NextHead)

Consumes == ~Collides /\ NextHead = peach

Distinct(s) == \A i, j \in 1 .. Len(s) : i # j => s[i] # s[j]

(***************************************************************************)
(* C1. Target validity.                                                    *)
(***************************************************************************)

\* C1 (as claimed): in every reachable state, in every phase, the peach is on
\* no cell of the snake.
C1_TargetNeverOnBody == peach \notin Cells(snake)

\* C1 (amended): in every reachable state whose phase is not WON the peach is
\* on no cell of the snake; in WON the peach is the head of the snake, the
\* cell of the last peach eaten, and on no other cell of it.
C1_TargetOffBodyUnlessWon ==
    /\ Phase # "WON" => peach \notin Cells(snake)
    /\ Phase = "WON" => /\ peach = snake[1]
                        /\ \A i \in 2 .. Len(snake) : snake[i] # peach

\* C1 witness: a running game in which a peach has been eaten and the next
\* one has been placed beside a snake of more than one cell.
C1_Witness ==
    /\ Phase = "ACTIVE"
    /\ score >= 1
    /\ Len(snake) >= 2
    /\ moved # "NONE"

(***************************************************************************)
(* C2. No reversal between two consecutive ticks.                          *)
(***************************************************************************)

\* C2 (as claimed): a tick of a running game that follows another tick of the
\* same run never applies the direction opposite to the one that tick
\* applied, whatever turn requests came between them.
C2_NoReversalBetweenTicks ==
    [][(ActiveTick /\ moved # "NONE") => direction # Opposite(moved)]_vars

(***************************************************************************)
(* C3. Last valid request wins, judged against the committed direction.    *)
(***************************************************************************)

\* C3 (as claimed): the direction a tick of a running game applies is the most
\* recent request since the previous tick that is not the opposite of the
\* direction that tick applied, and that direction itself if there was none.
C3_LastValidRequestWins ==
    [][ActiveTick => direction = pending]_vars

(***************************************************************************)
(* C4. No self-overlap.                                                    *)
(***************************************************************************)

\* C4: while the game is running, the cells of the snake are pairwise
\* distinct.
C4_BodyDistinctWhileActive == Phase = "ACTIVE" => Distinct(snake)

\* C4 witness: a running snake of three cells that has already moved.
C4_Witness ==
    /\ Phase = "ACTIVE"
    /\ Len(snake) >= 3
    /\ moved # "NONE"

(***************************************************************************)
(* C5. Bounds.                                                             *)
(***************************************************************************)

\* C5: every cell of the snake is on the board, in every reachable state; in
\* particular the state a tick into a wall leaves holds no cell off the
\* board.
C5_BodyInGrid ==
    \A i \in 1 .. Len(snake) :
        /\ 0 <= snake[i].x /\ snake[i].x < GRID_SIZE
        /\ 0 <= snake[i].y /\ snake[i].y < GRID_SIZE

\* C5 witness: the game was lost by a tick whose head would have left the
\* board.
C5_Witness ==
    /\ Phase = "LOST"
    /\ moved # "NONE"
    /\ HitsWall(NewHead(snake[1], moved))

(***************************************************************************)
(* C6. Growth.                                                             *)
(***************************************************************************)

\* C6: a tick of a running game that does not collide leaves the new head in
\* front of the whole old snake (one cell longer) when the new head is the
\* peach, and in front of the old snake without its last cell (same length)
\* otherwise.
C6_GrowthByOneOnConsume ==
    [][(ActiveTick /\ ~Collides) =>
          IF NextHead = peach
          THEN /\ Len(snake') = Len(snake) + 1
               /\ snake' = <<NextHead>> \o snake
          ELSE /\ Len(snake') = Len(snake)
               /\ snake' = <<NextHead>> \o SubSeq(snake, 1, Len(snake) - 1)]_vars

\* C6 witness: a running snake of two cells with score 1 that no longer
\* covers the starting cell: it has eaten once (and grown), and it has made
\* a move without eating (which kept its length), before or after that.
C6_Witness ==
    /\ Phase = "ACTIVE"
    /\ score = 1
    /\ Len(snake) = 2
    /\ moved # "NONE"
    /\ INITIAL_SNAKE[1] \notin Cells(snake)

(***************************************************************************)
(* C7. Win condition.                                                      *)
(***************************************************************************)

\* C7: the score is MAX_PEACHES exactly in the phase WON; a game that is LOST,
\* IDLE or ACTIVE has a score below MAX_PEACHES.
C7_ScoreMaxIffWon ==
    /\ (score = MAX_PEACHES) <=> (Phase = "WON")
    /\ Phase \in {"LOST", "IDLE", "ACTIVE"} => score < MAX_PEACHES

\* C7 witness: a game won by eating the last peach.
C7_Witness ==
    /\ Phase = "WON"
    /\ score = MAX_PEACHES
    /\ Len(snake) = MAX_PEACHES + 1
    /\ ~isPlaying

(***************************************************************************)
(* C8. Score range and changes.                                            *)
(***************************************************************************)

\* C8: the score is always between 0 and MAX_PEACHES, and a step changes it
\* only by adding 1 in a tick that eats the peach, or by setting it to 0 in
\* startGame or resetGame.
C8_ScoreRangeAndSteps ==
    /\ [](score \in 0 .. MAX_PEACHES)
    /\ [][score' # score =>
             \/ ActiveTick /\ Consumes /\ score' = score + 1
             \/ (startGame \/ resetGame) /\ score' = 0]_vars

\* C8 witness: a score that has been raised twice by eating.
C8_Witness ==
    /\ score = 2
    /\ Len(snake) = 3
    /\ moved # "NONE"

(***************************************************************************)
(* C9. Ticks outside the running game.                                     *)
(***************************************************************************)

\* C9: a timer callback in any phase other than ACTIVE changes nothing; and
\* in WON or LOST every step other than startGame and resetGame leaves snake,
\* peach and score as they are.
C9_TickIsNoOpUnlessActive ==
    /\ [][(Phase # "ACTIVE" /\ moveSnake) => UNCHANGED state]_vars
    /\ [][(Phase = "WON" \/ Phase = "LOST") =>
             (UNCHANGED <<snake, peach, score>> \/ startGame \/ resetGame)]_vars

\* C9 witness: a lost game, in which timer callbacks may still arrive.
C9_Witness ==
    /\ Phase = "LOST"
    /\ ENABLED (Phase # "ACTIVE" /\ moveSnake)
    /\ Len(snake) >= 2

(***************************************************************************)
(* C10. Start gives a clean run.                                           *)
(***************************************************************************)

\* C10: startGame from IDLE, WON or LOST leaves a running game with the
\* one-cell starting snake, the initial direction, score 0 and a peach off the
\* snake, whatever the state was before.
C10_StartGivesCleanRun ==
    [][(Phase \in {"IDLE", "WON", "LOST"} /\ startGame) =>
          /\ Phase' = "ACTIVE"
          /\ snake' = INITIAL_SNAKE
          /\ direction' = INITIAL_DIRECTION
          /\ score' = 0
          /\ peach' \notin Cells(snake')]_vars

\* C10 witness: a game just started, which can only have come from startGame
\* (resetGame leaves it stopped, a tick leaves a moved snake).
C10_Witness ==
    /\ Phase = "ACTIVE"
    /\ moved = "NONE"
    /\ score = 0
    /\ snake = INITIAL_SNAKE
    /\ peach # INITIAL_PEACH

(***************************************************************************)
(* C11. Start while the game is running.                                   *)
(***************************************************************************)

\* C11 (as claimed): startGame called while the phase is ACTIVE changes
\* nothing: snake, direction, peach, score and phase stay as they are.
C11_StartWhileActiveIsNoOp ==
    [][(Phase = "ACTIVE" /\ startGame) => UNCHANGED state]_vars

(***************************************************************************)
(* C12. Reset.                                                             *)
(***************************************************************************)

\* C12: resetGame called in any phase leaves the one-cell starting snake, the
\* initial direction, score 0, phase IDLE and a peach off the snake; and
\* resetGame called right after resetGame leaves snake, direction, score,
\* phase (and peach) as the first call left them.
C12_ResetGivesStartState ==
    /\ [][resetGame =>
             /\ snake' = INITIAL_SNAKE
             /\ direction' = INITIAL_DIRECTION
             /\ score' = 0
             /\ Phase' = "IDLE"
             /\ peach' \in Grid
             /\ peach' \notin Cells(snake')]_vars
    /\ [][(resetFrom # "NONE" /\ resetGame) =>
             /\ UNCHANGED <<snake, direction, score, peach>>
             /\ Phase' = Phase]_vars

\* C12 witness: resetGame has been called in a won game (a phase in which the
\* component shows no Reset button) and has left the starting state.
C12_Witness ==
    /\ resetFrom = "WON"
    /\ Phase = "IDLE"
    /\ snake = INITIAL_SNAKE
    /\ score = 0

(***************************************************************************)
(* C13. Phase changes.                                                     *)
(***************************************************************************)

\* C13: the phase changes only from IDLE, WON or LOST to ACTIVE by startGame,
\* from ACTIVE to LOST by a tick that collides, from ACTIVE to WON by a tick
\* that brings the score to MAX_PEACHES, and from any phase to IDLE by
\* resetGame; a turn request never changes it, and neither does a tick
\* outside ACTIVE.
C13_PhaseEdges ==
    /\ [][(Phase' # Phase) =>
             \/ Phase \in {"IDLE", "WON", "LOST"} /\ Phase' = "ACTIVE" /\ startGame
             \/ Phase = "ACTIVE" /\ Phase' = "LOST" /\ moveSnake /\ Collides
             \/ Phase = "ACTIVE" /\ Phase' = "WON" /\ moveSnake /\ Consumes
                                 /\ score' = MAX_PEACHES
             \/ Phase' = "IDLE" /\ resetGame]_vars
    /\ [][(KeyDown \/ Touch) => (Phase' = Phase)]_vars
    /\ [][(Phase # "ACTIVE" /\ moveSnake) => (Phase' = Phase)]_vars

\* C13 witness: a game that was started, lost by a tick and then reset: the
\* phase has gone from IDLE to ACTIVE to LOST and back to IDLE.
C13_Witness ==
    /\ resetFrom = "LOST"
    /\ Phase = "IDLE"

(***************************************************************************)
(* C14. A single request for the opposite direction.                       *)
(***************************************************************************)

\* C14: in a running game, a request for the opposite of the current
\* direction D that is the only request since the last tick changes nothing,
\* and the next tick applies D: unless it collides, it puts the head one cell
\* further in direction D and the game is not lost.
C14_SingleReversalIgnored ==
    /\ [][(LoopRunning /\ only # "REVERSE" /\ only' = "REVERSE") =>
             UNCHANGED state]_vars
    /\ [][(ActiveTick /\ only = "REVERSE") =>
             /\ direction = Committed
             /\ moved' = Committed
             /\ ~Collides => /\ snake'[1] = NewHead(snake[1], Committed)
                             /\ Phase' # "LOST"]_vars

\* C14 witness: a snake of three cells in a row heading RIGHT that has just
\* made a tick after a lone request for LEFT, and is still running.
C14_Witness ==
    /\ only = "REFUSED"
    /\ Phase = "ACTIVE"
    /\ moved = "RIGHT"
    /\ Len(snake) = 3
    /\ snake[2] = NewHead(snake[3], "RIGHT")
    /\ snake[1] = NewHead(snake[2], "RIGHT")

(***************************************************************************)
(* C15. Wall collision.                                                    *)
(***************************************************************************)

\* C15: a tick of a running game whose new head is off the board sets the
\* phase to LOST and leaves snake, peach and score as they were.
C15_WallTickLoses ==
    [][(ActiveTick /\ NextHead \notin Grid) =>
          /\ Phase' = "LOST"
          /\ UNCHANGED <<snake, peach, score>>]_vars

\* C15 witness: a game lost by a tick to the LEFT with the head in column 0.
C15_Witness ==
    /\ Phase = "LOST"
    /\ moved = "LEFT"
    /\ snake[1].x = 0

(***************************************************************************)
(* C16. Self collision.                                                    *)
(***************************************************************************)

\* C16: a tick of a running game whose new head is on any cell of the snake as
\* it is before the tick, the last cell included, sets the phase to LOST and
\* leaves snake, peach and score as they were.
C16_SelfTickLoses ==
    [][(ActiveTick /\ NextHead \in Cells(snake)) =>
          /\ Phase' = "LOST"
          /\ UNCHANGED <<snake, peach, score>>]_vars

\* C16 witness: a game lost by a tick whose new head was on the last cell of
\* the snake, which is still there.
C16_Witness ==
    /\ Phase = "LOST"
    /\ moved # "NONE"
    /\ Len(snake) >= 2
    /\ NewHead(snake[1], moved) = snake[Len(snake)]

(***************************************************************************)
(* C17. The tick that eats the peach.                                      *)
(***************************************************************************)

\* C17: a tick that eats the peach keeps the whole old snake behind the new
\* head and adds 1 to the score; with the score at MAX_PEACHES - 1 it reaches
\* MAX_PEACHES, the phase becomes WON and the peach stays where it was;
\* otherwise the game goes on with a new peach on the board and off the grown
\* snake.
C17_ConsumingTick ==
    [][(ActiveTick /\ Consumes) =>
          /\ snake' = <<NextHead>> \o snake
          /\ score' = score + 1
          /\ IF score = MAX_PEACHES - 1
             THEN /\ score' = MAX_PEACHES
                  /\ Phase' = "WON"
                  /\ peach' = peach
             ELSE /\ Phase' = "ACTIVE"
                  /\ peach' \in Grid
                  /\ peach' \notin Cells(snake')]_vars

\* C17 witness: a won game whose peach still lies under the head that ate it.
C17_Witness ==
    /\ Phase = "WON"
    /\ moved # "NONE"
    /\ peach = snake[1]
    /\ snake[1] = NewHead(snake[2], moved)
    /\ Len(snake) = MAX_PEACHES + 1

(***************************************************************************)
(* C19. Length and score.                                                  *)
(***************************************************************************)

\* C19: in every reachable state the snake has score + 1 cells.
C19_LengthIsScorePlusOne == Len(snake) = score + 1

\* C19 witness: a game lost after two peaches, with a snake of three cells.
C19_Witness ==
    /\ Phase = "LOST"
    /\ score = 2
    /\ Len(snake) = 3

(***************************************************************************)
(* C20. A straight run ends.                                               *)
(***************************************************************************)

\* C20: ticks that follow one another with no call between them all apply the
\* same direction, and a running game has never made GRID_SIZE ticks in a row
\* in the same direction: the GRID_SIZE-th such tick, at the latest, leaves
\* the phase LOST or WON. (run counts the ticks in a row that applied the
\* same direction, with or without calls between them, so it is at least the
\* number of ticks since the last call.)
C20_StraightRunEnds ==
    /\ run \in 0 .. GRID_SIZE
    /\ Phase = "ACTIVE" => run < GRID_SIZE

\* C20 witness: a game ended by the GRID_SIZE-th tick in a row in the same
\* direction, after a snake crossed the whole board.
C20_Witness ==
    /\ run = GRID_SIZE
    /\ Phase = "LOST"
    /\ moved # "NONE"

(***************************************************************************)
(* C18. The spawner ends.                                                  *)
(***************************************************************************)

\* C18 (as claimed): for every argument, a call of generatePeach comes to an
\* end: it returns a cell (free and on the board, if there is one), or it
\* fails because the snake covers the whole board.
C18_SpawnEnds ==
    <>(/\ spawnPc \in {"returned", "exhausted"}
       /\ spawnPc = "returned" => (newPeach \in Grid /\ newPeach \notin Cells(spawnArg)))

\* What does hold: a call whose argument leaves a cell free returns, and
\* returns a free cell of the board.
SpawnEndsWhenCellFree ==
    (Cells(spawnArg) # Grid) ~>
        (spawnPc = "returned" /\ newPeach \in Grid /\ newPeach \notin Cells(spawnArg))

====
